---------------------------- MODULE Spec2Model ----------------------------
(***************************************************************************)
(* Model of garinh/ia_cutup: src/app/api/random-sentences/route.ts (the    *)
(* sentence extractor, the content filter, the language gate and the GET   *)
(* book loop) and src/app/page.tsx.                                        *)
(*                                                                         *)
(* route.ts holds two current revisions of the route: the lenient one      *)
(* (lines 1-299) and the markup-aware one with the strict gate (lines      *)
(* 301-669).  The variable `variant` says which revision is running.       *)
(*                                                                         *)
(* A text is a TLA+ string in the state; the operators work on its         *)
(* characters, a sequence of one-character strings.                        *)
(***************************************************************************)
EXTENDS Integers, Sequences, FiniteSets, TLC

VARIABLES
    variant,      \* "lenient" (route.ts:1-299) or "markup" (route.ts:301-669)
    text,         \* the text argument of the call under way
    op,           \* position: "input", or the operation that has run
    lines,        \* filterMainContent's local lines
    contentLines, \* filterMainContent's local contentLines
    mainContent,  \* filterMainContent's return value
    cleanedText,  \* extractSentences' local cleanedText; the gate's in GET
    candidates,   \* extractSentences' split result, before map/filter
    sentences,    \* extractSentences' return value
    accepted,     \* the language gate's verdict: GET goes on to extractSentences
    calls,        \* history: the calls of the two functions and what they returned
    divisions,    \* history: the divisions the last operation evaluated
    pc,           \* GET's position: "idle", "search", "loop" or "done"
    booksSelected,           \* searchMetadata.booksSelected
    booksProcessed,          \* searchMetadata.booksProcessed
    booksSuccessful,         \* searchMetadata.booksSuccessful
    booksFailed,             \* searchMetadata.booksFailed
    totalSentencesExtracted, \* searchMetadata.totalSentencesExtracted
    bookDetails,             \* searchMetadata.bookDetails
    responseSentences,       \* GET's local sentences
    status,       \* the status of GET's response, 0 while there is none
    trace,        \* history: what GET did with each book it visited
    page,         \* page.tsx:32-35: the state of Home as last rendered
    updates,      \* the set-state calls React has not rendered yet
    requests      \* history: the calls of fetchRandomSentences, in flight or settled

callVars == <<text, op, lines, contentLines, mainContent, cleanedText,
              candidates, sentences, accepted, calls>>

getVars == <<pc, booksSelected, booksProcessed, booksSuccessful, booksFailed,
             totalSentencesExtracted, bookDetails, responseSentences, status,
             trace>>

pageVars == <<page, updates, requests>>

vars == <<variant, callVars, getVars, divisions, pageVars>>

-----------------------------------------------------------------------------
(* Characters and strings *)

\* A string as the sequence of its characters.
Chars(s) == [i \in 1..Len(s) |-> SubSeq(s, i, i)]

\* The string a sequence of characters spells.
RECURSIVE Str(_)
Str(cs) ==
    IF Len(cs) = 0 THEN ""
    ELSE IF Len(cs) = 1 THEN cs[1]
    ELSE LET h == Len(cs) \div 2
         IN  Str(SubSeq(cs, 1, h)) \o Str(SubSeq(cs, h + 1, Len(cs)))

Range(f) == {f[i] : i \in DOMAIN f}

UpperAlphabet == "ABCDEFGHIJKLMNOPQRSTUVWXYZ"
LowerAlphabet == "abcdefghijklmnopqrstuvwxyz"

\* [A-Z]
UpperCase == Range(Chars(UpperAlphabet))
\* [a-z]
LowerCase == Range(Chars(LowerAlphabet))
\* [a-zA-Z]
Letter == UpperCase \cup LowerCase
\* \d
Digit == Range(Chars("0123456789"))
\* \w
WordChar == Letter \cup Digit \cup {"_"}
\* \s (the white space that occurs in the texts of the model)
Space == {" ", "\n", "\t", "\r"}
\* [.!?]
Terminal == {".", "!", "?"}
\* [0-9a-fA-F]
HexDigit == Digit \cup Range(Chars("abcdefABCDEF"))
\* [a-zA-Z0-9_\-]
IdentChar == WordChar \cup {"-"}

LowerOf == [c \in UpperCase |->
               LET i == CHOOSE k \in 1..Len(UpperAlphabet) :
                            SubSeq(UpperAlphabet, k, k) = c
               IN  SubSeq(LowerAlphabet, i, i)]

\* String.prototype.toLowerCase, on characters
toLowerCase(cs) ==
    [i \in 1..Len(cs) |-> IF cs[i] \in UpperCase THEN LowerOf[cs[i]] ELSE cs[i]]

\* w occurs in cs at index i
MatchAt(cs, i, w) ==
    /\ i >= 1
    /\ i + Len(w) - 1 <= Len(cs)
    /\ \A k \in 1..Len(w) : cs[i + k - 1] = w[k]

\* String.prototype.includes
includes(cs, w) == \E i \in 1..(Len(cs) - Len(w) + 1) : MatchAt(cs, i, w)

\* The first index >= i of cs whose character is outside Class (Len+1 if none):
\* where a greedy run [Class]* that starts at i ends.
Span(cs, i, Class) ==
    IF i > Len(cs) THEN i
    ELSE CHOOSE k \in i..(Len(cs) + 1) :
             /\ k > Len(cs) \/ cs[k] \notin Class
             /\ \A m \in i..(k - 1) : cs[m] \in Class

\* The removed-character mark of the replace operators.
Gone == ""

\* replace(/[Class]+/g, " "): every maximal run of Class becomes one space
ReplaceRuns(cs, Class) ==
    SelectSeq([i \in 1..Len(cs) |->
                  IF cs[i] \in Class
                  THEN IF i > 1 /\ cs[i - 1] \in Class THEN Gone ELSE " "
                  ELSE cs[i]],
              LAMBDA c : c # Gone)

\* The replace with the braces, the hash and the round brackets among the
\* characters it keeps
ReplaceSpecialKeepsMarkup(cs) ==
    [i \in 1..Len(cs) |->
        IF cs[i] \in WordChar \cup Space \cup Terminal \cup {"{", "}", "#", "(", ")"}
        THEN cs[i] ELSE " "]

\* The replace with the round brackets among the characters it keeps
ReplaceSpecialKeepsBrackets(cs) ==
    [i \in 1..Len(cs) |->
        IF cs[i] \in WordChar \cup Space \cup Terminal \cup {"(", ")"}
        THEN cs[i] ELSE " "]

\* replace(/[^\w\s.!?]/g, " "): every other character becomes a space
ReplaceSpecial(cs) ==
    [i \in 1..Len(cs) |->
        IF cs[i] \in WordChar \cup Space \cup Terminal THEN cs[i] ELSE " "]

\* The last index <= i of cs whose character is outside Class (0 if none).
SpanBack(cs, i, Class) ==
    IF i < 1 THEN i
    ELSE CHOOSE k \in 0..i :
             /\ k < 1 \/ cs[k] \notin Class
             /\ \A m \in (k + 1)..i : cs[m] \in Class

\* String.prototype.trim
trim(cs) ==
    LET first == Span(cs, 1, Space)
    IN  IF first > Len(cs) THEN <<>>
        ELSE SubSeq(cs, first, SpanBack(cs, Len(cs), Space))

\* String.prototype.split("\n"): the lines of a text; "" has one empty line
RECURSIVE SplitLinesFrom(_, _)
SplitLinesFrom(cs, start) ==
    LET nl == Span(cs, start, Range(cs) \ {"\n"})
    IN  IF nl > Len(cs) THEN <<SubSeq(cs, start, Len(cs))>>
        ELSE <<SubSeq(cs, start, nl - 1)>> \o SplitLinesFrom(cs, nl + 1)

SplitLines(cs) == SplitLinesFrom(cs, 1)

\* A join that ends every part, the last too, with the separator
RECURSIVE JoinWithEach(_, _)
JoinWithEach(parts, sep) ==
    IF Len(parts) = 0 THEN <<>>
    ELSE parts[1] \o sep \o JoinWithEach(Tail(parts), sep)

\* Array.prototype.join("\n")
RECURSIVE JoinWith(_, _)
JoinWith(parts, sep) ==
    IF Len(parts) = 0 THEN <<>>
    ELSE IF Len(parts) = 1 THEN parts[1]
    ELSE parts[1] \o sep \o JoinWith(Tail(parts), sep)

-----------------------------------------------------------------------------
(* filterMainContent: route.ts:83-107 (lenient), route.ts:402-446 (markup) *)

\* A string of the source as characters, for the literals of the patterns.
Lit(s) == Chars(s)

\* ^(w) with the i flag: t starts with w, whatever the case (w is lower case)
StartsWithCI(t, w) ==
    Len(t) >= Len(w) /\ toLowerCase(SubSeq(t, 1, Len(w))) = w

\* route.ts:423  /^(\.|\#)[a-zA-Z0-9_\-]+(\s+\{|\s+[a-zA-Z0-9_\-]+\s*\{|$)/
cssSelectorLine(t) ==
    /\ Len(t) >= 2
    /\ t[1] \in {".", "#"}
    /\ LET e == Span(t, 2, IdentChar)
       IN  /\ e > 2
           /\ \/ e > Len(t)
              \/ LET w == Span(t, e, Space)
                 IN  /\ w > e
                     /\ \/ MatchAt(t, w, <<"{">>)
                        \/ LET e2 == Span(t, w, IdentChar)
                           IN  /\ e2 > w
                               /\ MatchAt(t, Span(t, e2, Space), <<"{">>)

\* route.ts:424  /^\.([\w\-]+\s*)+(\{|\:|$)/
cssClassLine(t) ==
    /\ Len(t) >= 2
    /\ t[1] = "."
    /\ t[2] \in IdentChar
    /\ LET e == Span(t, 2, IdentChar \cup Space)
       IN  e > Len(t) \/ t[e] \in {"{", ":"}

cssPropertyNames ==
    {Lit("display"), Lit("margin"), Lit("padding"), Lit("border"),
     Lit("background"), Lit("color"), Lit("font"), Lit("width"),
     Lit("height"), Lit("position"), Lit("flex"), Lit("grid")}

\* route.ts:425  /^(display|margin|...|flex|grid)/i
cssPropertyLine(t) == \E w \in cssPropertyNames : StartsWithCI(t, w)

htmlCssNames ==
    {Lit("button"), Lit("label"), Lit("div"), Lit("span"), Lit("style"),
     Lit("class"), Lit("id")}

\* route.ts:426  /^(button|label|div|span|style|class|id)\s*(\.|\#|\{|\:)/i
htmlCssMixedLine(t) ==
    \E w \in htmlCssNames :
        /\ StartsWithCI(t, w)
        /\ LET p == Span(t, Len(w) + 1, Space)
           IN  p <= Len(t) /\ t[p] \in {".", "#", "{", ":"}

\* route.ts:427  /^<[^>]+>|<\/[^>]+>$/
htmlTagLine(t) ==
    \/ /\ Len(t) >= 3
       /\ t[1] = "<"
       /\ LET g == Span(t, 2, Range(t) \ {">"})
          IN  g > 2 /\ g <= Len(t)
    \/ /\ Len(t) >= 4
       /\ t[Len(t)] = ">"
       /\ \E p \in 1..(Len(t) - 3) :
             /\ t[p] = "<"
             /\ t[p + 1] = "/"
             /\ \A k \in (p + 2)..(Len(t) - 1) : t[k] # ">"

\* route.ts:428  /^\{[\s\S]*\}$/
braceBlockLine(t) == Len(t) >= 2 /\ t[1] = "{" /\ t[Len(t)] = "}"

webComponentNames ==
    {Lit("shady dom"), Lit("shadow dom"), Lit("web component")}

\* route.ts:429  /^(Shady DOM|Shadow DOM|Web Component)/i
webComponentLine(t) == \E w \in webComponentNames : StartsWithCI(t, w)

\* route.ts:430  /^(style|styles)\s+(for|in|of)\s+/i
styleReferenceLine(t) ==
    \E w \in {Lit("style"), Lit("styles")} :
        /\ StartsWithCI(t, w)
        /\ LET p == Span(t, Len(w) + 1, Space)
           IN  /\ p > Len(w) + 1
               /\ \E k \in {Lit("for"), Lit("in"), Lit("of")} :
                     /\ MatchAt(toLowerCase(t), p, k)
                     /\ p + Len(k) <= Len(t)
                     /\ t[p + Len(k)] \in Space

\* route.ts:431  includes('webkit') || includes('mozilla') || includes('moz-')
browserPrefixLine(t) ==
    \E w \in {Lit("webkit"), Lit("mozilla"), Lit("moz-")} : includes(t, w)

scriptWords ==
    {Lit("true"), Lit("false"), Lit("null"), Lit("undefined"), Lit("var"),
     Lit("let"), Lit("const"), Lit("function")}

\* route.ts:432  /^(true|false|null|undefined|var|let|const|function)\s*[\{\(\=\;]/
scriptLine(t) ==
    \E w \in scriptWords :
        /\ MatchAt(t, 1, w)
        /\ LET p == Span(t, Len(w) + 1, Space)
           IN  p <= Len(t) /\ t[p] \in {"{", "(", "=", ";"}

\* #[0-9a-fA-F]{3,6} at index i
HexColourAt(t, i) ==
    /\ MatchAt(t, i, <<"#">>)
    /\ i + 3 <= Len(t)
    /\ \A k \in (i + 1)..(i + 3) : t[k] \in HexDigit

\* rgba?\( at index i
RgbCallAt(t, i) == MatchAt(t, i, Lit("rgb(")) \/ MatchAt(t, i, Lit("rgba("))

\* \d+<unit> starting at index i
DigitsUnitAt(t, i, unit) ==
    LET d == Span(t, i, Digit) IN d > i /\ MatchAt(t, d, unit)

\* route.ts:433  /\:\s*\d+px|\:\s*#[0-9a-fA-F]{3,6}|\:\s*rgba?\(/
cssValueLine(t) ==
    \E i \in 1..Len(t) :
        /\ t[i] = ":"
        /\ LET p == Span(t, i + 1, Space)
           IN  \/ DigitsUnitAt(t, p, Lit("px"))
               \/ HexColourAt(t, p)
               \/ RgbCallAt(t, p)

\* route.ts:434  /^[\{\}\[\]\(\)\;]+$/
bracketsOnlyLine(t) ==
    Len(t) >= 1 /\ \A i \in 1..Len(t) : t[i] \in {"{", "}", "[", "]", "(", ")", ";"}

\* route.ts:435  /^\d+\s*\{/
lineNumberBraceLine(t) ==
    LET d == Span(t, 1, Digit)
    IN  d > 1 /\ MatchAt(t, Span(t, d, Space), <<"{">>)

\* route.ts:419-438: the filter callback; TRUE when the line is kept
keepLine(line) ==
    LET trimmed == trim(line)
    IN  /\ ~cssSelectorLine(trimmed)
        /\ ~cssClassLine(trimmed)
        /\ ~cssPropertyLine(trimmed)
        /\ ~htmlCssMixedLine(trimmed)
        /\ ~htmlTagLine(trimmed)
        /\ ~braceBlockLine(trimmed)
        /\ ~webComponentLine(trimmed)
        /\ ~styleReferenceLine(trimmed)
        /\ ~browserPrefixLine(trimmed)
        /\ ~scriptLine(trimmed)
        /\ ~cssValueLine(trimmed)
        /\ ~bracketsOnlyLine(trimmed)
        /\ ~lineNumberBraceLine(trimmed)

\* The lines, each one trimmed
textLinesTrimmed(v, cs) ==
    LET ls == IF v = "markup" THEN SelectSeq(SplitLines(cs), keepLine)
              ELSE SplitLines(cs)
    IN  [i \in 1..Len(ls) |-> trim(ls[i])]

\* route.ts:99 and route.ts:418-438: the lines the skip is computed on
textLines(v, cs) ==
    IF v = "markup" THEN SelectSeq(SplitLines(cs), keepLine)
    ELSE SplitLines(cs)

\* Math.ceil in place of Math.floor
skipLinesCeil(n) == (n * 15 + 99) \div 100

\* Math.floor(n * 0.15).  n * 0.15 is a double; for a multiple of 20 the
\* product rounds to the integer 3n/20 (the relative error of 0.15 is under
\* half an ulp) and otherwise it is at least 0.05 from an integer, so the floor is
\* that of the exact 15n/100.
skipLines(n) == (n * 15) \div 100

\* lines.slice(skipLines)
sliceLines(ls) == SubSeq(ls, skipLines(Len(ls)) + 1, Len(ls))

\* filterMainContent(text), on characters
filterMainContent(v, cs) == JoinWith(sliceLines(textLines(v, cs)), <<"\n">>)

-----------------------------------------------------------------------------
(* extractSentences: route.ts:17-75 (lenient), route.ts:317-394 (markup) *)

\* route.ts:22-38
excludeKeywordsLenient ==
    {"GNU", "GPL", "license", "copyright", "gutenberg", "warranty",
     "redistribution", "permission", "terms and conditions",
     "free software foundation", "all rights reserved", "page", "chapter",
     "table of contents", "index"}

\* route.ts:322-350
excludeKeywordsMarkup ==
    excludeKeywordsLenient \cup
    {"css", "html", "style", "display", "margin", "padding", "border",
     "webkit", "mozilla", "shadow dom", "shady dom", "web component"}

\* keyword.toLowerCase() of every keyword
loweredKeywordsLenient == {toLowerCase(Chars(k)) : k \in excludeKeywordsLenient}
loweredKeywordsMarkup == {toLowerCase(Chars(k)) : k \in excludeKeywordsMarkup}

loweredKeywords(v) ==
    IF v = "markup" THEN loweredKeywordsMarkup ELSE loweredKeywordsLenient

\* The replace chain without its last replace(/\s+/g, " ")
normalizeOnce(cs) ==
    trim(ReplaceSpecial(ReplaceRuns(ReplaceRuns(cs, {"\n"}), Space)))

\* route.ts:41-46 and route.ts:353-358: the replace chain and the trim
normalize(cs) ==
    trim(ReplaceRuns(ReplaceSpecial(ReplaceRuns(ReplaceRuns(cs, {"\n"}), Space)),
                     Space))

\* The split pattern with (?=[a-z]) for its lookahead
SeparatorStartsLowerAhead(cs) ==
    {i \in 2..Len(cs) :
        /\ cs[i] \in Space
        /\ cs[i - 1] \in Terminal
        /\ LET e == Span(cs, i, Space)
           IN  e <= Len(cs) /\ cs[e] \in LowerCase}

\* The white-space runs the split pattern /(?<=[.!?])\s+(?=[A-Z])/ matches: the
\* index a run starts at, after a terminal and before an upper-case letter.
SeparatorStarts(cs) ==
    {i \in 2..Len(cs) :
        /\ cs[i] \in Space
        /\ cs[i - 1] \in Terminal
        /\ LET e == Span(cs, i, Space)
           IN  e <= Len(cs) /\ cs[e] \in UpperCase}

RECURSIVE SplitFrom(_, _, _)
SplitFrom(cs, start, seps) ==
    LET rest == {i \in seps : i >= start}
    IN  IF rest = {} THEN <<SubSeq(cs, start, Len(cs))>>
        ELSE LET i == CHOOSE k \in rest : \A m \in rest : k <= m
             IN  <<SubSeq(cs, start, i - 1)>>
                     \o SplitFrom(cs, Span(cs, i, Space), seps)

\* route.ts:51 and route.ts:363: cleanedText.split(/(?<=[.!?])\s+(?=[A-Z])/)
splitSentences(cs) == SplitFrom(cs, 1, SeparatorStarts(cs))

selectorWords ==
    {Lit("media"), Lit("button"), Lit("label"), Lit("web"), Lit("menu"),
     Lit("nav"), Lit("header"), Lit("footer"), Lit("container"), Lit("wrapper")}

selectorTargets ==
    {Lit("button"), Lit("label"), Lit("display"), Lit("none"), Lit("flex"),
     Lit("grid"), Lit("style")}

\* route.ts:376  /\.(media|...|wrapper)\s+(button|...|style)/i
selectorChainRule(s) ==
    LET l == toLowerCase(s)
    IN  \E i \in 1..Len(l) :
            /\ l[i] = "."
            /\ \E a \in selectorWords :
                  /\ MatchAt(l, i + 1, a)
                  /\ LET p == Span(l, i + 1 + Len(a), Space)
                     IN  /\ p > i + 1 + Len(a)
                         /\ \E b \in selectorTargets : MatchAt(l, p, b)

\* route.ts:377  /\d+px|\d+em|\d+rem/ : a digit right before the unit
unitRule(s) ==
    \E i \in 1..Len(s) :
        /\ s[i] \in Digit
        /\ \E u \in {Lit("px"), Lit("em"), Lit("rem")} : MatchAt(s, i + 1, u)

\* route.ts:377  /rgba?\(/
rgbRule(s) == \E i \in 1..Len(s) : RgbCallAt(s, i)

\* route.ts:377  /#[0-9a-fA-F]{3,6}/
hexColourRule(s) == \E i \in 1..Len(s) : HexColourAt(s, i)

\* route.ts:378  /\{[\s\S]*\}/
braceBlockRule(s) ==
    \E i \in 1..Len(s) : s[i] = "{" /\ \E j \in (i + 1)..Len(s) : s[j] = "}"

displayValues ==
    {Lit("none"), Lit("block"), Lit("flex"), Lit("grid"), Lit("inline")}

\* route.ts:379  /display\s+(none|block|flex|grid|inline)/i
displayRule(s) ==
    LET l == toLowerCase(s)
        w == Lit("display")
    IN  \E i \in 1..Len(l) :
            /\ MatchAt(l, i, w)
            /\ LET p == Span(l, i + Len(w), Space)
               IN  /\ p > i + Len(w)
                   /\ \E b \in displayValues : MatchAt(l, p, b)

\* route.ts:380  s.includes('.') && s.split('.').length > 5
tooManyDotsRule(s) ==
    LET dots == Cardinality({i \in 1..Len(s) : s[i] = "."})
    IN  dots >= 1 /\ dots + 1 > 5

\* route.ts:376-380: the markup rules of the filter callback
markupRules(s) ==
    \/ selectorChainRule(s)
    \/ unitRule(s) \/ rgbRule(s) \/ hexColourRule(s)
    \/ braceBlockRule(s)
    \/ displayRule(s)
    \/ tooManyDotsRule(s)

\* route.ts:55 and route.ts:367
MinLength == 15
MaxLength == 600

\* route.ts:55, 367: s.length < 15 || s.length > 600 returns false
lengthOk(s) == ~(Len(s) < MinLength \/ Len(s) > MaxLength)

\* The keyword test without s.toLowerCase()
hasExcludedKeywordCaseSensitive(v, s) ==
    \E keyword \in loweredKeywords(v) : includes(s, keyword)

\* route.ts:58-59, 370-371
hasExcludedKeyword(v, s) ==
    LET lowerSentence == toLowerCase(s)
    IN  \E keyword \in loweredKeywords(v) : includes(lowerSentence, keyword)

\* route.ts:64, 383  /[a-zA-Z]{3,}/.test(s)
hasLetters(s) ==
    \E i \in 1..(Len(s) - 2) : \A k \in i..(i + 2) : s[k] \in Letter

\* route.ts:67, 386
letterCount(s) == Cardinality({i \in 1..Len(s) : s[i] \in Letter})

\* letterRatio >= 0.3 in place of letterRatio > 0.3
letterRatioAtLeast(s) == letterCount(s) * 10 >= 3 * Len(s)

\* route.ts:69-71, 388-390: letterCount / totalCount > 0.3.  The quotient of
\* two integers equals the double 0.3 exactly when it is 3/10 and is otherwise
\* far from it, so the comparison is that of the exact fractions.
letterRatioOk(s) == letterCount(s) * 10 > 3 * Len(s)

\* route.ts:53-72 and route.ts:365-391: the filter callback
acceptSentence(v, s) ==
    /\ lengthOk(s)
    /\ ~hasExcludedKeyword(v, s)
    /\ (v = "markup" => ~markupRules(s))
    /\ hasLetters(s)
    /\ letterRatioOk(s)

\* A map that also cuts every candidate to fifty characters
trimAllCut(parts) ==
    [i \in 1..Len(parts) |->
        LET t == trim(parts[i])
        IN  IF Len(t) > 50 THEN SubSeq(t, 1, 50) ELSE t]

\* route.ts:52, 364: .map((s) => s.trim())
trimAll(parts) == [i \in 1..Len(parts) |-> trim(parts[i])]

\* The filter returning every accepted sentence twice
filterSentencesTwice(v, parts) ==
    SelectSeq(parts, LAMBDA s : acceptSentence(v, s))
        \o SelectSeq(parts, LAMBDA s : acceptSentence(v, s))

\* The filter adding to an array that outlives the call
filterSentencesKept(v, parts) ==
    [i \in 1..Len(sentences) |-> Chars(sentences[i])]
        \o SelectSeq(parts, LAMBDA s : acceptSentence(v, s))

\* route.ts:53, 365: .filter(...)
filterSentences(v, parts) == SelectSeq(parts, LAMBDA s : acceptSentence(v, s))

\* A division the code evaluates: where, and by what.
Division(at, by) == [at |-> at, by |-> by]

\* route.ts:55-61, 367-380: the returns ahead of the letter ratio
reachesLetterRatio(v, s) ==
    /\ lengthOk(s)
    /\ ~hasExcludedKeyword(v, s)
    /\ (v = "markup" => ~markupRules(s))

\* route.ts:67-69, 386-388: letterCount / totalCount, for every candidate that
\* gets there
sentenceDivisions(v, parts) ==
    {Division("letterRatio", Len(parts[i])) :
        i \in {k \in 1..Len(parts) : reachesLetterRatio(v, parts[k])}}

\* extractSentences(text), on characters
extractSentences(v, cs) ==
    filterSentences(v, trimAll(splitSentences(normalize(filterMainContent(v, cs)))))

-----------------------------------------------------------------------------
(* The language gate of GET: route.ts:216-240 (lenient), route.ts:566-610   *)
(* (strict, in the markup revision)                                        *)

\* The whole text for the sample, as in the lenient revision
sampleTextWhole(v, full) == full

\* route.ts:568-570: fullText.slice(Math.floor(length * 0.2),
\* Math.floor(length * 0.3)).  The doubles 0.2 and 0.3 are within half an ulp
\* of 1/5 and 3/10, so a product that is an integer in exact arithmetic rounds
\* to it, and the floors are those of the exact length/5 and 3*length/10.
sampleText(v, full) ==
    IF v = "markup"
    THEN SubSeq(full, Len(full) \div 5 + 1, (3 * Len(full)) \div 10)
    ELSE full

\* replace(/\d+/g, '')
RemoveDigits(cs) == SelectSeq(cs, LAMBDA c : c \notin Digit)

\* replace(/[^\w\s]/g, ' ')
ReplacePunctuation(cs) ==
    [i \in 1..Len(cs) |-> IF cs[i] \in WordChar \cup Space THEN cs[i] ELSE " "]

\* route.ts:218-222, 573-577: the gate's cleanedText
cleanSample(cs) == trim(ReplaceRuns(ReplacePunctuation(RemoveDigits(cs)), Space))

\* route.ts:224, 579
englishCharCount(cleaned) == letterCount(cleaned)

\* route.ts:228, 583: totalCharCount > 100
AnalyzableLength == 100

\* route.ts:596
commonEnglishWords ==
    {"the", "and", "is", "in", "to", "of", "a", "that", "it", "was", "for", "on",
     "with", "as", "be"}

\* ` ${word} ` of every word
spacedWords == {Chars(" " \o w \o " ") : w \in commonEnglishWords}

\* The count with a word at either end of the sample counted too
englishWordCountAtEnds(cleaned) ==
    LET lowerSample == <<" ">> \o toLowerCase(cleaned) \o <<" ">>
    IN  Cardinality({w \in spacedWords : includes(lowerSample, w)})

\* route.ts:597-600
englishWordCount(cleaned) ==
    LET lowerSample == toLowerCase(cleaned)
    IN  Cardinality({w \in spacedWords : includes(lowerSample, w)})

\* route.ts:603: englishWordCount < 5
MinCommonWords == 5

\* The lenient revision's 0.3 in the strict gate too
ratioBelowLenient(v, cleaned) ==
    10 * englishCharCount(cleaned) < 3 * Len(cleaned)

\* route.ts:233, 587: englishRatio < 0.3, englishRatio < 0.6.  The quotient of
\* two integers is the double 0.3 (0.6) exactly when it is 3/10 (6/10) and is
\* otherwise far from it, so the comparison is that of the exact fractions.
ratioBelow(v, cleaned) ==
    IF v = "markup"
    THEN 10 * englishCharCount(cleaned) < 6 * Len(cleaned)
    ELSE 10 * englishCharCount(cleaned) < 3 * Len(cleaned)

\* The checks without the guard of route.ts:228, 583 on the length
gateAcceptsAnyLength(v, cleaned) ==
    /\ ~ratioBelow(v, cleaned)
    /\ (v = "markup" => ~(englishWordCount(cleaned) < MinCommonWords))

\* englishCharCount / totalCharCount without the guard on the length
gateDivisionsUnguarded(cleaned) == {Division("englishRatio", Len(cleaned))}

\* route.ts:228-229, 583-584: englishCharCount / totalCharCount
gateDivisions(cleaned) ==
    IF Len(cleaned) > AnalyzableLength
    THEN {Division("englishRatio", Len(cleaned))}
    ELSE {}

\* route.ts:228-240, 583-610: FALSE when the book is skipped
gateAccepts(v, cleaned) ==
    IF Len(cleaned) > AnalyzableLength
    THEN /\ ~ratioBelow(v, cleaned)
         /\ (v = "markup" => ~(englishWordCount(cleaned) < MinCommonWords))
    ELSE TRUE

\* The gate on a book's full text
isLikelyEnglish(v, full) == gateAccepts(v, cleanSample(sampleText(v, full)))

-----------------------------------------------------------------------------
(* The texts the core is run on *)

\* The two sentences of the specification's example.
SentenceA == "This is a sufficiently long narrative sentence about adventure."
SentenceB == "Another equally long narrative sentence follows here today."
\* The style rule of the specification's example.
StyleRule == ".nav-menu { display: flex; margin: 10px; }"

\* A sentence with two adjacent spaces inside.
SentenceGap == "Words with a  doubled gap inside."
\* A sentence whose first word is a style property name.
SentenceColor == "Color fades when the evening light is gone."
\* A licence line, a sentence that is too short, and twenty characters of
\* which six are letters.
SentenceCopyright == "Copyright 1999 by the author."
SentenceShort == "Go on."
SentenceDigits == "Abcdef 1234567 8901."

Tokens ==
    {SentenceA, SentenceB, "\n",
     " " \o StyleRule \o " ",
     "\n" \o StyleRule \o "\n",
     "! {\n"}

\* The longest token text is MaxTokens tokens long.
MaxTokens == 3

RECURSIVE ConcatAll(_)
ConcatAll(ss) == IF Len(ss) = 0 THEN "" ELSE Head(ss) \o ConcatAll(Tail(ss))

TokenTexts ==
    {ConcatAll(ss) : ss \in UNION {[1..n -> Tokens] : n \in 0..MaxTokens}}

Sentences ==
    {SentenceA, SentenceB, SentenceGap, SentenceColor, SentenceCopyright,
     SentenceDigits, SentenceShort}

\* The longest sentence text is MaxSentences sentences long.
MaxSentences == 2

RECURSIVE JoinStr(_, _)
JoinStr(ss, sep) ==
    IF Len(ss) = 0 THEN ""
    ELSE IF Len(ss) = 1 THEN Head(ss)
    ELSE Head(ss) \o sep \o JoinStr(Tail(ss), sep)

\* One line of sentences with one space between them.
SentenceTexts ==
    {JoinStr(ss, " ") : ss \in UNION {[1..n -> Sentences] : n \in 1..MaxSentences}}

RECURSIVE Repeat(_, _)
Repeat(s, n) ==
    IF n = 0 THEN ""
    ELSE IF n = 1 THEN s
    ELSE Repeat(s, n \div 2) \o Repeat(s, n - n \div 2)

\* A word one character short of the longest sentence.
LongWord == "A" \o Repeat("a", MaxLength - 2)

\* Texts whose candidates are at and over the length bound.
LongTexts ==
    {LongWord \o ".", LongWord \o "!.", LongWord \o ". " \o SentenceShort,
     SentenceA \o " " \o LongWord \o "!."}

\* White space only, punctuation only, and a sentence with symbols, digits
\* and a tab inside.
WhiteSpaceOnly == "  \t \n "
PunctuationOnly == "?!?!?!?!?!?!?!?!.;{}"
SentenceSymbols == "The cost (in total) was #42 & rising\tfast."
\* A sentence with a colour call, a brace block and a hex colour inside.
SentencePaint == "The sky was rgb(0,0,255) and {very} #abcdef blue that day."

EdgeTexts == {WhiteSpaceOnly, PunctuationOnly, SentenceSymbols, SentencePaint}

Texts == TokenTexts \cup SentenceTexts \cup LongTexts \cup EdgeTexts

-----------------------------------------------------------------------------
(* The core, one call at a time *)

StrAll(css) == [i \in 1..Len(css) |-> Str(css[i])]

\* page.tsx:35: the null of error and of searchMetadata
null == "null"

\* page.tsx:32-35: the initial state of Home, nothing asked for yet
PageIdle ==
    /\ page = [sentences |-> <<>>, searchMetadata |-> null, loading |-> FALSE,
               error |-> null]
    /\ updates = <<>>
    /\ requests = <<>>

\* No request is being served.
GetIdle ==
    /\ pc = "idle"
    /\ booksSelected = 0
    /\ booksProcessed = 0
    /\ booksSuccessful = 0
    /\ booksFailed = 0
    /\ totalSentencesExtracted = 0
    /\ bookDetails = <<>>
    /\ responseSentences = <<>>
    /\ status = 0
    /\ trace = <<>>

Init ==
    /\ variant \in {"lenient", "markup"}
    /\ text \in Texts
    /\ op = "input"
    /\ lines = <<>>
    /\ contentLines = <<>>
    /\ mainContent = ""
    /\ cleanedText = ""
    /\ candidates = <<>>
    /\ sentences = <<>>
    /\ accepted = FALSE
    /\ calls = <<>>
    /\ divisions = {}
    /\ GetIdle
    /\ PageIdle

\* What the history keeps of a call.
Call(fn, input, output) == [fn |-> fn, text |-> input, result |-> output]

\* A call of filterMainContent(text)
FilterMainContent ==
    /\ op = "input"
    /\ op' = "filter"
    /\ LET ls == textLines(variant, Chars(text))
       IN  /\ lines' = StrAll(ls)
           /\ contentLines' = StrAll(sliceLines(ls))
           /\ mainContent' = Str(JoinWith(sliceLines(ls), <<"\n">>))
    /\ calls' = Append(calls, Call("filterMainContent", text, mainContent'))
    /\ divisions' = {}
    /\ UNCHANGED <<variant, pageVars, text, cleanedText, candidates, sentences, accepted,
                   getVars>>

\* A call of extractSentences(text)
ExtractSentences ==
    /\ op = "input"
    /\ op' = "extract"
    /\ LET ls == textLines(variant, Chars(text))
           main == JoinWith(sliceLines(ls), <<"\n">>)
           cleaned == normalize(main)
           parts == splitSentences(cleaned)
       IN  /\ lines' = StrAll(ls)
           /\ contentLines' = StrAll(sliceLines(ls))
           /\ mainContent' = Str(main)
           /\ cleanedText' = Str(cleaned)
           /\ candidates' = StrAll(parts)
           /\ sentences' = StrAll(filterSentences(variant, trimAll(parts)))
           /\ divisions' = sentenceDivisions(variant, trimAll(parts))
    /\ calls' = Append(calls, Call("extractSentences", text, sentences'))
    /\ UNCHANGED <<variant, pageVars, text, accepted, getVars>>

Next == FilterMainContent \/ ExtractSentences

Spec == Init /\ [][Next]_vars

-----------------------------------------------------------------------------
(* extractSentences as a call that is made and returns *)

\* The sentence texts, the texts at the length bound, the edge texts and the
\* empty text.
CoreTexts == SentenceTexts \cup LongTexts \cup EdgeTexts \cup {""}

\* route.ts:317-394: the locals of extractSentences(text) when it returns
extractLocals(v, cs) ==
    LET ls == textLines(v, cs)
        main == JoinWith(sliceLines(ls), <<"\n">>)
        cleaned == normalize(main)
        parts == splitSentences(cleaned)
    IN  [lines |-> StrAll(ls),
         contentLines |-> StrAll(sliceLines(ls)),
         mainContent |-> Str(main),
         cleanedText |-> Str(cleaned),
         candidates |-> StrAll(parts),
         sentences |-> StrAll(filterSentences(v, trimAll(parts))),
         divisions |-> sentenceDivisions(v, trimAll(parts))]

\* extractSentences on each of the texts
extractTable ==
    [v \in {"lenient", "markup"} |->
        [t \in CoreTexts |-> extractLocals(v, Chars(t))]]

InitExtract ==
    /\ variant \in {"lenient", "markup"}
    /\ text \in CoreTexts
    /\ op = "input"
    /\ lines = <<>>
    /\ contentLines = <<>>
    /\ mainContent = ""
    /\ cleanedText = ""
    /\ candidates = <<>>
    /\ sentences = <<>>
    /\ accepted = FALSE
    /\ calls = <<>>
    /\ divisions = {}
    /\ GetIdle
    /\ PageIdle

\* route.ts:393: extractSentences(text) returns
ExtractSentencesReturns ==
    /\ op = "input"
    /\ op' = "extract"
    /\ LET r == extractTable[variant][text]
       IN  /\ lines' = r.lines
           /\ contentLines' = r.contentLines
           /\ mainContent' = r.mainContent
           /\ cleanedText' = r.cleanedText
           /\ candidates' = r.candidates
           /\ sentences' = r.sentences
           /\ calls' = Append(calls, Call("extractSentences", text, r.sentences))
           /\ divisions' = r.divisions
    /\ UNCHANGED <<variant, pageVars, text, accepted, getVars>>

NextExtract == ExtractSentencesReturns

\* extractSentences is a synchronous function: once called it runs until it
\* returns.
SpecExtract == InitExtract /\ [][NextExtract]_vars /\ WF_vars(NextExtract)

-----------------------------------------------------------------------------
(* filterMainContent on texts given line by line *)

\* Two lines of prose with white space around the first, a licence line, and
\* a style selector line.
Blocks == {"  It was a dark night. \nThe rain fell.", "Copyright 1999", "  .nav-menu {"}

\* The longest line text has MaxBlocks blocks.
MaxBlocks == 6

LineTexts ==
    {JoinStr(bs, "\n") : bs \in UNION {[1..n -> Blocks] : n \in 0..MaxBlocks}}

InitLines ==
    /\ variant \in {"lenient", "markup"}
    /\ text \in LineTexts
    /\ op = "input"
    /\ lines = <<>>
    /\ contentLines = <<>>
    /\ mainContent = ""
    /\ cleanedText = ""
    /\ candidates = <<>>
    /\ sentences = <<>>
    /\ accepted = FALSE
    /\ calls = <<>>
    /\ divisions = {}
    /\ GetIdle
    /\ PageIdle

NextLines == FilterMainContent

SpecLines == InitLines /\ [][NextLines]_vars

-----------------------------------------------------------------------------
(* Calls of the two functions one after another, as GET makes them for the  *)
(* books of a request and for the requests that follow                      *)

\* The style rule on its own line between the two sentences.
RuleOnItsLine == SentenceA \o "\n" \o StyleRule \o "\n" \o SentenceB

\* The documents of the calls.
CallTexts == {SentenceA \o " " \o SentenceB, RuleOnItsLine, SentenceCopyright}

\* A history holds at most MaxCalls calls.
MaxCalls == 3

InitCalls ==
    /\ variant \in {"lenient", "markup"}
    /\ text \in CallTexts
    /\ op = "input"
    /\ lines = <<>>
    /\ contentLines = <<>>
    /\ mainContent = ""
    /\ cleanedText = ""
    /\ candidates = <<>>
    /\ sentences = <<>>
    /\ accepted = FALSE
    /\ calls = <<>>
    /\ divisions = {}
    /\ GetIdle
    /\ PageIdle

\* route.ts:534, 613: the caller goes on to its next document
NextDocument ==
    /\ op \in {"filter", "extract"}
    /\ Len(calls) < MaxCalls
    /\ text' \in CallTexts
    /\ op' = "input"
    /\ UNCHANGED <<variant, pageVars, lines, contentLines, mainContent, cleanedText,
                   candidates, sentences, accepted, calls, getVars, divisions>>

NextCalls == FilterMainContent \/ ExtractSentences \/ NextDocument

SpecCalls == InitCalls /\ [][NextCalls]_vars

-----------------------------------------------------------------------------
(* The language gate on a book's text *)

\* Thirty-three letters, seventy-seven underscores, fifty digits and
\* punctuation marks, and twelve of the common words.
LetterRun == Repeat("a", 33)
UnderscoreRun == Repeat("_", 77)
DigitsAndPunctuation == Repeat("12345!?.;,", 5)
CommonWords == " the and is in to of a that it was for on "

\* A sample of 104 characters that starts and ends with a common word and
\* has four more between, one of them twice.
FirstLastWords == "to The AND the is " \o Repeat("z", 80) \o " in of"

\* The same alone, after letters and punctuation, which puts its first word
\* inside, and before the twelve words.
WordSamples ==
    {FirstLastWords,
     LetterRun \o DigitsAndPunctuation \o FirstLastWords,
     FirstLastWords \o CommonWords}

GateTokens == {LetterRun, UnderscoreRun, DigitsAndPunctuation, CommonWords}

\* The longest gate text is MaxGateTokens tokens long.
MaxGateTokens == 3

\* A text whose tenth from 20% to 30% of its length is t.
Framed(t) == Repeat("x", 2 * Len(t)) \o t \o Repeat("x", 7 * Len(t))

RawGateTexts ==
    {ConcatAll(ss) : ss \in UNION {[1..n -> GateTokens] : n \in 0..MaxGateTokens}}

\* Texts without a letter: the longest whose window has 100 characters, and
\* the shortest whose window has 101.
BoundaryTexts == {Repeat("_", 1000), Repeat("_", 1004)}

GateTexts ==
    RawGateTexts \cup {Framed(t) : t \in RawGateTexts \cup WordSamples}
        \cup BoundaryTexts

InitGate ==
    /\ variant \in {"lenient", "markup"}
    /\ text \in GateTexts
    /\ op = "input"
    /\ lines = <<>>
    /\ contentLines = <<>>
    /\ mainContent = ""
    /\ cleanedText = ""
    /\ candidates = <<>>
    /\ sentences = <<>>
    /\ accepted = FALSE
    /\ calls = <<>>
    /\ divisions = {}
    /\ GetIdle
    /\ PageIdle

\* The gate of GET on fullText = text
LanguageGate ==
    /\ op = "input"
    /\ op' = "gate"
    /\ LET cleaned == cleanSample(sampleText(variant, Chars(text)))
       IN  /\ cleanedText' = Str(cleaned)
           /\ accepted' = gateAccepts(variant, cleaned)
           /\ divisions' = gateDivisions(cleaned)
    /\ UNCHANGED <<variant, pageVars, text, lines, contentLines, mainContent, candidates,
                   sentences, calls, getVars>>

NextGate == LanguageGate

SpecGate == InitGate /\ [][NextGate]_vars

-----------------------------------------------------------------------------
(* GET: route.ts:109-299 (lenient), route.ts:448-669 (markup revision) *)

\* The arrangement without its slice(0, count)
getRandomItemsUncut(array, count) == {array}

\* route.ts:397-400: the array under a comparator that answers at random, cut
\* to count items: any arrangement of that many of its elements.
getRandomItems(array, count) ==
    LET k == IF count < Len(array) THEN count ELSE Len(array)
        picks == {p \in [1..k -> 1..Len(array)] :
                     \A i, j \in 1..k : i # j => p[i] # p[j]}
    IN  {[i \in 1..k |-> array[p[i]]] : p \in picks}

\* route.ts:509: Math.min(6, booksWithIA.length)
MaxSelected == 6

\* route.ts:631: getRandomItems(bookSentences, 2)
SentencesPerBook == 2

\* The catalogue holds at most MaxCatalogue books that pass the filter.
MaxCatalogue == 7

Prose == SentenceA \o " " \o SentenceB
Refrain == SentenceA \o " " \o SentenceA \o " " \o SentenceA
LowRatioText == UnderscoreRun \o UnderscoreRun \o LetterRun
LowRatioSample == Framed(CommonWords \o UnderscoreRun)

\* The texts archive.org answers with: two sentences, one sentence, one
\* sentence three times, and two texts without a sentence, of which one fails
\* the lenient gate and the other the strict one.
BookTexts == {Prose, SentenceA, Refrain, LowRatioText, LowRatioSample}

\* route.ts:566-610 on each of the texts
bookGate ==
    [v \in {"lenient", "markup"} |->
        [t \in BookTexts |-> isLikelyEnglish(v, Chars(t))]]

\* route.ts:613 on each of the texts
bookSentences ==
    [v \in {"lenient", "markup"} |->
        [t \in BookTexts |-> StrAll(extractSentences(v, Chars(t)))]]

\* route.ts:584 on each of the texts
bookGateDivisions ==
    [v \in {"lenient", "markup"} |->
        [t \in BookTexts |-> gateDivisions(cleanSample(sampleText(v, Chars(t))))]]

\* route.ts:386-388 within route.ts:613 on each of the texts
bookSentenceDivisions ==
    [v \in {"lenient", "markup"} |->
        [t \in BookTexts |-> extractLocals(v, Chars(t)).divisions]]

\* route.ts:624: fullText.length / bookSentences.length
averageDivisions(found) == {Division("avgSentenceLength", Len(found))}

InitGet ==
    /\ variant \in {"lenient", "markup"}
    /\ text = ""
    /\ op = "get"
    /\ lines = <<>>
    /\ contentLines = <<>>
    /\ mainContent = ""
    /\ cleanedText = ""
    /\ candidates = <<>>
    /\ sentences = <<>>
    /\ accepted = FALSE
    /\ calls = <<>>
    /\ divisions = {}
    /\ pc = "search"
    /\ booksSelected = 0
    /\ booksProcessed = 0
    /\ booksSuccessful = 0
    /\ booksFailed = 0
    /\ totalSentencesExtracted = 0
    /\ bookDetails = <<>>
    /\ responseSentences = <<>>
    /\ status = 0
    /\ trace = <<>>
    /\ PageIdle

\* route.ts:459-460, 665-668: the search request or its JSON throws
SearchThrows ==
    /\ pc = "search"
    /\ pc' = "done"
    /\ status' = 500
    /\ UNCHANGED <<variant, pageVars, callVars, booksSelected, booksProcessed,
                   booksSuccessful, booksFailed, totalSentencesExtracted,
                   bookDetails, responseSentences, trace, divisions>>

\* route.ts:504-506: no book passes the filter
SearchFindsNothing ==
    /\ pc = "search"
    /\ pc' = "done"
    /\ status' = 404
    /\ UNCHANGED <<variant, pageVars, callVars, booksSelected, booksProcessed,
                   booksSuccessful, booksFailed, totalSentencesExtracted,
                   bookDetails, responseSentences, trace, divisions>>

\* route.ts:509-531: booksWithIA books pass the filter
SelectBooks ==
    /\ pc = "search"
    /\ \E booksWithIA \in 1..MaxCatalogue :
           booksSelected' =
               IF MaxSelected < booksWithIA THEN MaxSelected ELSE booksWithIA
    /\ pc' = "loop"
    /\ UNCHANGED <<variant, pageVars, callVars, booksProcessed, booksSuccessful,
                   booksFailed, totalSentencesExtracted, bookDetails,
                   responseSentences, status, trace, divisions>>

\* route.ts:534: the loop has a book to go on with
MoreBooks == pc = "loop" /\ booksProcessed < booksSelected

\* The book of the iteration under way, and what the history keeps of it.
book == booksProcessed + 1

Visit(step, gate, extracted) ==
    [book |-> book, step |-> step, gate |-> gate, extracted |-> extracted]

\* route.ts:536-544, 564: the bookDetail of the iteration
BookDetail(bookStatus, sentencesFound, textLength) ==
    [status |-> bookStatus, sentencesFound |-> sentencesFound,
     textLength |-> textLength]

\* The skip without its booksFailed++
skipBookUncounted(step, gate, extracted, bookStatus, textLength, divided) ==
    /\ booksProcessed' = booksProcessed + 1
    /\ booksFailed' = booksFailed
    /\ bookDetails' = Append(bookDetails, BookDetail(bookStatus, 0, textLength))
    /\ trace' = Append(trace, Visit(step, gate, extracted))
    /\ divisions' = divided
    /\ UNCHANGED <<variant, pageVars, callVars, pc, booksSelected, booksSuccessful,
                   totalSentencesExtracted, responseSentences, status>>

\* route.ts:557-560, 589-592, 605-608, 617-620, 650-653: the book is counted
\* as failed and the loop continues
skipBook(step, gate, extracted, bookStatus, textLength, divided) ==
    /\ booksProcessed' = booksProcessed + 1
    /\ booksFailed' = booksFailed + 1
    /\ bookDetails' = Append(bookDetails, BookDetail(bookStatus, 0, textLength))
    /\ trace' = Append(trace, Visit(step, gate, extracted))
    /\ divisions' = divided
    /\ UNCHANGED <<variant, pageVars, callVars, pc, booksSelected, booksSuccessful,
                   totalSentencesExtracted, responseSentences, status>>

\* The catch of route.ts:648-654 leaving the loop instead of continuing
BookThrowsAndAborts ==
    /\ MoreBooks
    /\ booksProcessed' = booksProcessed + 1
    /\ booksFailed' = booksFailed + 1
    /\ bookDetails' = Append(bookDetails, BookDetail("failed", 0, 0))
    /\ trace' = Append(trace, Visit("threw", "none", FALSE))
    /\ divisions' = {}
    /\ pc' = "done"
    /\ status' = 500
    /\ UNCHANGED <<variant, pageVars, callVars, booksSelected, booksSuccessful,
                   totalSentencesExtracted, responseSentences>>

\* route.ts:555-561: the text response is not ok
FetchNotOk ==
    /\ MoreBooks
    /\ skipBook("notOk", "none", FALSE, "failed", 0, {})

\* route.ts:553, 563, 648-654: the fetch or the reading of its text throws
BookThrows ==
    /\ MoreBooks
    /\ skipBook("threw", "none", FALSE, "failed", 0, {})

\* route.ts:583-610: the gate turns the text down
GateRejects ==
    /\ MoreBooks
    /\ \E fullText \in BookTexts :
           /\ ~bookGate[variant][fullText]
           /\ skipBook("gate", "rejected", FALSE, "no_sentences", Len(fullText),
                       bookGateDivisions[variant][fullText])

\* route.ts:613-621: extractSentences returns no sentence
NoSentences ==
    /\ MoreBooks
    /\ \E fullText \in BookTexts :
           /\ bookGate[variant][fullText]
           /\ bookSentences[variant][fullText] = <<>>
           /\ skipBook("extract", "accepted", TRUE, "no_sentences", Len(fullText),
                       bookGateDivisions[variant][fullText]
                           \cup bookSentenceDivisions[variant][fullText])

\* route.ts:613, 624-647: up to two of the book's sentences join the response
BookSucceeds ==
    /\ MoreBooks
    /\ \E fullText \in BookTexts :
           /\ bookGate[variant][fullText]
           /\ bookSentences[variant][fullText] # <<>>
           /\ divisions' =
                  bookGateDivisions[variant][fullText]
                      \cup bookSentenceDivisions[variant][fullText]
                      \cup averageDivisions(bookSentences[variant][fullText])
           /\ \E randomSentences \in
                  getRandomItems(bookSentences[variant][fullText],
                                 SentencesPerBook) :
                  /\ bookDetails' =
                         Append(bookDetails,
                                BookDetail("success", Len(randomSentences),
                                           Len(fullText)))
                  /\ totalSentencesExtracted' =
                         totalSentencesExtracted + Len(randomSentences)
                  /\ responseSentences' =
                         responseSentences \o
                         [i \in 1..Len(randomSentences) |->
                             [text |-> randomSentences[i], book |-> book]]
    /\ booksProcessed' = booksProcessed + 1
    /\ booksSuccessful' = booksSuccessful + 1
    /\ trace' = Append(trace, Visit("success", "accepted", TRUE))
    /\ UNCHANGED <<variant, pageVars, callVars, pc, booksSelected, booksFailed, status>>

\* route.ts:657-664: the loop is over
Respond ==
    /\ pc = "loop"
    /\ booksProcessed = booksSelected
    /\ pc' = "done"
    /\ status' = IF Len(responseSentences) = 0 THEN 500 ELSE 200
    /\ UNCHANGED <<variant, pageVars, callVars, booksSelected, booksProcessed,
                   booksSuccessful, booksFailed, totalSentencesExtracted,
                   bookDetails, responseSentences, trace, divisions>>

NextGet ==
    \/ SearchThrows
    \/ SearchFindsNothing
    \/ SelectBooks
    \/ FetchNotOk
    \/ BookThrows
    \/ GateRejects
    \/ NoSentences
    \/ BookSucceeds
    \/ Respond

SpecGet == InitGet /\ [][NextGet]_vars

-----------------------------------------------------------------------------
(* The two functions, the gate and GET together *)

InitTotal == InitExtract \/ InitGet

NextTotal == Next \/ NextGate \/ NextGet

SpecTotal == InitTotal /\ [][NextTotal]_vars

-----------------------------------------------------------------------------
(* The page component: page.tsx:31-111 *)

\* The page is clicked at most MaxClicks times.
MaxClicks == 3

\* route.ts:661-664: the sentences lists of GET's success responses
ResponseLists == {<<SentenceA>>, <<SentenceB, SentenceA>>}

\* route.ts:505, 658, 667: the error bodies of GET by status; "" stands for
\* a body without an error field
ErrorBodies(code) ==
    IF code = 404 THEN {"No books with full text found", ""}
    ELSE {"Could not extract sentences from books",
          "Failed to fetch random sentences"}

\* page.tsx:45: what response.json() resolves to
Bodies(code) ==
    IF code = 200
    THEN {[sentences |-> l, searchMetadata |-> "searchMetadata", error |-> ""] :
             l \in ResponseLists}
    ELSE {[sentences |-> <<>>, searchMetadata |-> null, error |-> e] :
             e \in ErrorBodies(code)}

NoBody == [sentences |-> <<>>, searchMetadata |-> null, error |-> ""]

\* One call of fetchRandomSentences: where it stands, and what it got.
Request(at, code, data, outcome) ==
    [pc |-> at, status |-> code, data |-> data, outcome |-> outcome]

\* page.tsx:38-41, 51-56: a set-state call
SetState(name, value) == [name |-> name, value |-> value]

\* React applying set-state calls, in the order they were made
RECURSIVE Commit(_, _)
Commit(state, queue) ==
    IF queue = <<>> THEN state
    ELSE Commit([state EXCEPT ![Head(queue).name] = Head(queue).value],
                Tail(queue))

InitPage ==
    /\ variant \in {"lenient", "markup"}
    /\ text = ""
    /\ op = "page"
    /\ lines = <<>>
    /\ contentLines = <<>>
    /\ mainContent = ""
    /\ cleanedText = ""
    /\ candidates = <<>>
    /\ sentences = <<>>
    /\ accepted = FALSE
    /\ calls = <<>>
    /\ divisions = {}
    /\ GetIdle
    /\ PageIdle

\* The click handler on a button that is never disabled
ClickWhileLoading ==
    /\ Len(requests) < MaxClicks
    /\ requests' = Append(requests, Request("fetch", 0, NoBody, "pending"))
    /\ page' = Commit(page,
                      updates \o <<SetState("loading", TRUE),
                                   SetState("error", null),
                                   SetState("sentences", <<>>),
                                   SetState("searchMetadata", null)>>)
    /\ updates' = <<>>
    /\ UNCHANGED <<variant, callVars, getVars, divisions>>

\* page.tsx:75, 37-44: a click on the button, which is disabled while the
\* rendered loading is true; the handler runs to its first await and React
\* renders the four updates before the next event
Click ==
    /\ ~page.loading
    /\ Len(requests) < MaxClicks
    /\ requests' = Append(requests, Request("fetch", 0, NoBody, "pending"))
    /\ page' = Commit(page,
                      updates \o <<SetState("loading", TRUE),
                                   SetState("error", null),
                                   SetState("sentences", <<>>),
                                   SetState("searchMetadata", null)>>)
    /\ updates' = <<>>
    /\ UNCHANGED <<variant, callVars, getVars, divisions>>

\* page.tsx:53-57: the catch and the finally
settleWithError(r, message) ==
    /\ requests' = [requests EXCEPT ![r].pc = "done", ![r].outcome = "failure"]
    /\ updates' = updates \o <<SetState("error", message),
                                SetState("loading", FALSE)>>
    /\ UNCHANGED <<variant, callVars, getVars, divisions, page>>

\* page.tsx:44, 53-57: fetch rejects
FetchRejects(r) ==
    /\ requests[r].pc = "fetch"
    /\ settleWithError(r, "Failed to fetch")

\* page.tsx:44: fetch resolves with a response
FetchResolves(r) ==
    /\ requests[r].pc = "fetch"
    /\ \E code \in {200, 404, 500} :
           requests' = [requests EXCEPT ![r].pc = "json", ![r].status = code]
    /\ UNCHANGED <<variant, callVars, getVars, divisions, page, updates>>

\* page.tsx:45, 53-57: the body is not JSON
JsonRejects(r) ==
    /\ requests[r].pc = "json"
    /\ settleWithError(r, "Unexpected token")

\* page.tsx:45-49, 53-57: the response is not ok
ResponseNotOk(r) ==
    /\ requests[r].pc = "json"
    /\ requests[r].status # 200
    /\ \E data \in Bodies(requests[r].status) :
           /\ requests' = [requests EXCEPT ![r].pc = "done", ![r].data = data,
                                           ![r].outcome = "failure"]
           /\ updates' =
                  updates \o
                  <<SetState("error",
                             IF data.error # "" THEN data.error
                             ELSE "Failed to fetch sentences"),
                    SetState("loading", FALSE)>>
    /\ UNCHANGED <<variant, callVars, getVars, divisions, page>>

\* page.tsx:45-52, 55-57: the response is ok
ResponseOk(r) ==
    /\ requests[r].pc = "json"
    /\ requests[r].status = 200
    /\ \E data \in Bodies(200) :
           /\ requests' = [requests EXCEPT ![r].pc = "done", ![r].data = data,
                                           ![r].outcome = "success"]
           /\ updates' =
                  updates \o
                  <<SetState("sentences", data.sentences),
                    SetState("searchMetadata", data.searchMetadata),
                    SetState("loading", FALSE)>>
    /\ UNCHANGED <<variant, callVars, getVars, divisions, page>>

\* React renders set-state calls made after an await: one by one, or several
\* in one batch
Render ==
    /\ updates # <<>>
    /\ \E k \in 1..Len(updates) :
           /\ page' = Commit(page, SubSeq(updates, 1, k))
           /\ updates' = SubSeq(updates, k + 1, Len(updates))
    /\ UNCHANGED <<variant, callVars, getVars, divisions, requests>>

NextPage ==
    \/ Click
    \/ \E r \in 1..Len(requests) : FetchRejects(r)
    \/ \E r \in 1..Len(requests) : FetchResolves(r)
    \/ \E r \in 1..Len(requests) : JsonRejects(r)
    \/ \E r \in 1..Len(requests) : ResponseNotOk(r)
    \/ \E r \in 1..Len(requests) : ResponseOk(r)
    \/ Render

SpecPage == InitPage /\ [][NextPage]_vars

-----------------------------------------------------------------------------
(* Claims *)

LetterTotal(s) == Cardinality({i \in 1..Len(s) : SubSeq(s, i, i) \in Letter})

\* C1: every string extractSentences returns is 15 to 600 characters long and
\* more than 0.3 of its characters are ASCII letters.
C1_LengthAndLetterRatio ==
    op = "extract" =>
        \A i \in 1..Len(sentences) :
            /\ Len(sentences[i]) >= 15
            /\ Len(sentences[i]) <= 600
            /\ 10 * LetterTotal(sentences[i]) > 3 * Len(sentences[i])

\* C1's case: a sentence at the upper length bound is returned, and a candidate
\* was turned down.
C1_Witness ==
    /\ op = "extract"
    /\ \E i \in 1..Len(sentences) : Len(sentences[i]) = 600
    /\ Len(candidates) > Len(sentences)


HasKeyword(s, k) == includes(toLowerCase(Chars(s)), toLowerCase(Chars(k)))

DenyList == IF variant = "markup" THEN excludeKeywordsMarkup ELSE excludeKeywordsLenient

\* C2: no string extractSentences returns contains a keyword of the variant's
\* deny-list, whatever the case of its letters.
C2_NoDenyListKeyword ==
    op = "extract" =>
        \A i \in 1..Len(sentences) : \A k \in DenyList : ~HasKeyword(sentences[i], k)

\* C2's case: a candidate that holds "copyright" was turned down and another
\* sentence was returned.
C2_Witness ==
    /\ op = "extract"
    /\ Len(sentences) >= 1
    /\ \E i \in 1..Len(candidates) : HasKeyword(candidates[i], "copyright")

\* The style rule between two valid sentences, on their line or on its own.
EmbeddedStyleRule(a, b) ==
    {a \o " " \o StyleRule \o " " \o b, a \o "\n" \o StyleRule \o "\n" \o b}

\* C3: in the markup variant, a style rule embedded among valid sentences is
\* left out and every sentence around it is still returned.
C3_StyleRuleExcludedSentencesKept ==
    \A a, b \in {SentenceA, SentenceB} :
        (variant = "markup" /\ op = "extract" /\ text \in EmbeddedStyleRule(a, b))
            => sentences = <<a, b>>

\* A sentence of C4: an upper-case letter first, a period last, and letters
\* and spaces between.
PlainSentence(s) ==
    /\ Len(s) >= 2
    /\ SubSeq(s, 1, 1) \in UpperCase
    /\ SubSeq(s, Len(s), Len(s)) = "."
    /\ \A i \in 1..(Len(s) - 1) : SubSeq(s, i, i) \in Letter \cup {" "}

SingleSpaced(s) == \A i \in 1..(Len(s) - 1) : SubSeq(s, i, i + 1) # "  "

\* The ways to read the text as k sentences of the set with one space between.
Readings(set) ==
    {ss \in UNION {[1..n -> set] : n \in 1..MaxSentences} : text = JoinStr(ss, " ")}

\* C4 as stated: a line of k plain sentences that pass the filters, one space
\* apart, comes back as exactly those sentences.
C4_PlainSentencesReturned ==
    (variant = "lenient" /\ op = "extract") =>
        \A ss \in Readings({s \in Sentences :
                              PlainSentence(s) /\ acceptSentence(variant, Chars(s))}) :
            sentences = ss

\* C4 amended: the same when no sentence has two adjacent spaces and, in the
\* markup variant, the line is not one filterMainContent drops as noise.
C4_SingleSpacedSentencesReturned ==
    (op = "extract" /\ (variant = "markup" => keepLine(Chars(text)))) =>
        \A ss \in Readings({s \in Sentences :
                              /\ PlainSentence(s)
                              /\ SingleSpaced(s)
                              /\ acceptSentence(variant, Chars(s))}) :
            sentences = ss

\* C4's case: the two sentences of the specification's example came back.
C4_Witness ==
    /\ op = "extract"
    /\ text = SentenceA \o " " \o SentenceB
    /\ sentences = <<SentenceA, SentenceB>>

RECURSIVE IsSubsequence(_, _)
IsSubsequence(a, b) ==
    IF Len(a) = 0 THEN TRUE
    ELSE IF Len(b) = 0 THEN FALSE
    ELSE IF Head(a) = Head(b) THEN IsSubsequence(Tail(a), Tail(b))
    ELSE IsSubsequence(a, Tail(b))

\* The lines of the text, cut at every line break.
InputLines == StrAll(SplitLines(Chars(text)))

\* C5: the lines filterMainContent returns are a subsequence of the input's
\* lines, each one character for character an input line.
C5_LinesAreSubsequence ==
    op = "filter" =>
        /\ IsSubsequence(contentLines, InputLines)
        /\ mainContent = JoinStr(contentLines, "\n")

\* C5's case: a noise line and the front line were dropped, and a line with
\* white space at both ends was kept.
C5_Witness ==
    /\ op = "filter"
    /\ variant = "markup"
    /\ Len(contentLines) < Len(lines)
    /\ Len(lines) < Len(InputLines)
    /\ \E i \in 1..Len(contentLines) :
          /\ SubSeq(contentLines[i], 1, 1) = " "
          /\ SubSeq(contentLines[i], Len(contentLines[i]), Len(contentLines[i])) = " "

C7_SplitLosesNothing ==
    op = "extract" =>
        /\ JoinStr(candidates, " ") = cleanedText
        /\ \A i \in 1..(Len(candidates) - 1) :
              /\ Len(candidates[i]) >= 1
              /\ SubSeq(candidates[i], Len(candidates[i]), Len(candidates[i])) \in Terminal
        /\ \A i \in 2..Len(candidates) :
              /\ Len(candidates[i]) >= 1
              /\ SubSeq(candidates[i], 1, 1) \in UpperCase

\* C7's case: a split after "!" where a removed symbol had widened the gap.
C7_Witness ==
    /\ op = "extract"
    /\ Len(candidates) >= 2
    /\ \E i \in 1..(Len(candidates) - 1) :
          SubSeq(candidates[i], Len(candidates[i]), Len(candidates[i])) = "!"


\* The cleaned text of the gate holds letters, underscores and single spaces.
IsCleaned(s) ==
    /\ \A i \in 1..Len(s) : SubSeq(s, i, i) \in Letter \cup {"_", " "}
    /\ SingleSpaced(s)
    /\ Len(s) >= 1 => SubSeq(s, 1, 1) # " " /\ SubSeq(s, Len(s), Len(s)) # " "

\* C8 as stated: the lenient gate accepts exactly when the cleaned text has at
\* most 100 characters or more than 0.3 of them are letters.
C8_LenientAcceptsIffShortOrOverRatio ==
    (op = "gate" /\ variant = "lenient") =>
        (accepted <=> \/ Len(cleanedText) <= 100
                      \/ 10 * LetterTotal(cleanedText) > 3 * Len(cleanedText))

\* C8 amended: the lenient gate accepts exactly when the cleaned text has at
\* most 100 characters or at least 0.3 of them are letters; fifty digits and
\* punctuation marks are accepted.
C8_LenientAcceptsIffShortOrAtLeastRatio ==
    (op = "gate" /\ variant = "lenient") =>
        /\ IsCleaned(cleanedText)
        /\ accepted <=> \/ Len(cleanedText) <= 100
                        \/ 10 * LetterTotal(cleanedText) >= 3 * Len(cleanedText)
        /\ text = DigitsAndPunctuation => accepted

\* C8's case: a cleaned text over 100 characters is turned down.
C8_Witness ==
    /\ op = "gate"
    /\ variant = "lenient"
    /\ Len(cleanedText) > 100
    /\ ~accepted

CommonWordTotal(s) == englishWordCount(Chars(s))

SentencesFrom(k) ==
    {i \in 1..Len(responseSentences) : responseSentences[i].book = k}

\* C10: a book that fails to fetch, throws, is turned down by the gate or has
\* no sentence adds nothing to the response; extractSentences is not called
\* on a text the gate turned down; no response is built while a selected book
\* remains, and each selected book is visited once, in turn.
C10_FailedBookDoesNotAbortBatch ==
    /\ Len(trace) = booksProcessed
    /\ Len(bookDetails) = booksProcessed
    /\ \A k \in 1..Len(trace) :
           /\ trace[k].book = k
           /\ trace[k].gate = "rejected" => ~trace[k].extracted
           /\ trace[k].step # "success" =>
                  /\ SentencesFrom(k) = {}
                  /\ bookDetails[k].sentencesFound = 0
                  /\ bookDetails[k].status # "success"
    /\ pc = "loop" => status = 0
    /\ (pc = "done" /\ trace # <<>>) => Len(trace) = booksSelected

\* C10's case: the response is built after a book threw, a later one was
\* turned down by the gate, and a still later one gave sentences.
C10_Witness ==
    /\ pc = "done"
    /\ status = 200
    /\ \E i, j, k \in 1..Len(trace) :
           /\ i < j
           /\ j < k
           /\ trace[i].step \in {"threw", "notOk"}
           /\ trace[j].step \in {"gate", "extract"}
           /\ trace[k].step = "success"
           /\ SentencesFrom(k) # {}


C12_ExtractTerminatesWithinCandidates ==
    /\ <>(op = "extract")
    /\ [](op = "extract" => Len(sentences) <= Len(candidates))

\* C12's case: extractSentences returned nothing for a text of punctuation
\* marks, which is one candidate.
C12_Witness ==
    /\ op = "extract"
    /\ text = PunctuationOnly
    /\ Len(candidates) = 1
    /\ sentences = <<>>


\* C13: on the empty text filterMainContent returns the empty text and
\* extractSentences returns no sentence.
C13_EmptyInEmptyOut ==
    text = "" =>
        /\ op = "filter" => mainContent = ""
        /\ op = "extract" => sentences = <<>>

\* C13's case: extractSentences was called on the empty text, whose one
\* candidate is empty.
C13_Witness ==
    /\ text = ""
    /\ op = "extract"
    /\ candidates = <<"">>
    /\ sentences = <<>>

\* The characters a returned sentence may hold.
SentenceAlphabet == Letter \cup Digit \cup {"_", " ", ".", "!", "?"}

\* C15: a returned sentence holds letters, digits, underscores, single spaces
\* and the three terminals only, and no space at either end.
C15_SentenceAlphabet ==
    op = "extract" =>
        \A i \in 1..Len(sentences) :
            LET s == sentences[i]
            IN  /\ \A k \in 1..Len(s) : SubSeq(s, k, k) \in SentenceAlphabet
                /\ SingleSpaced(s)
                /\ Len(s) >= 1
                /\ SubSeq(s, 1, 1) # " "
                /\ SubSeq(s, Len(s), Len(s)) # " "

\* C15's case: the sentence with brackets, a hash, an ampersand and a tab came
\* back without them.
C15_Witness ==
    /\ op = "extract"
    /\ text = SentenceSymbols
    /\ sentences = <<"The cost in total was 42 rising fast.">>

\* C16: what extractSentences returns is a subsequence of the candidates, each
\* sentence one whole candidate, in the order of the text.
C16_SentencesAreSubsequenceOfCandidates ==
    op = "extract" =>
        /\ IsSubsequence(sentences, candidates)
        /\ \A i \in 1..Len(sentences) :
               Cardinality({k \in 1..Len(sentences) : sentences[k] = sentences[i]})
                   <= Cardinality({k \in 1..Len(candidates) :
                                       candidates[k] = sentences[i]})

\* C16's case: the first of two candidates was turned down and the second,
\* more than fifty characters long, came back whole.
C16_Witness ==
    /\ op = "extract"
    /\ Len(candidates) = 2
    /\ sentences = <<candidates[2]>>
    /\ Len(candidates[2]) > 50
    /\ candidates[1] # candidates[2]


\* C14: no division has a zero denominator: the letter ratio divides by a
\* length of 15 at least, the gate's ratio by a length over 100, and the
\* average by a number of sentences of one at least.
C14_NoZeroDenominator ==
    \A d \in divisions :
        /\ d.by >= 1
        /\ d.at = "letterRatio" => d.by >= 15
        /\ d.at = "englishRatio" => d.by > 100
        /\ d.at = "avgSentenceLength" => d.by >= 1

\* C14's case: a book for which the gate's ratio, the letter ratio and the
\* average were all computed.
C14_Witness ==
    /\ op = "get"
    /\ {d.at : d \in divisions} =
           {"letterRatio", "englishRatio", "avgSentenceLength"}


LowerCased(s) == Str(toLowerCase(Chars(s)))

\* The words of the list that stand in s with a space on both sides.
SpacedWordTotal(s) ==
    LET low == LowerCased(s)
    IN  Cardinality({w \in commonEnglishWords :
            \E i \in 1..(Len(low) - Len(w) - 1) :
                SubSeq(low, i, i + Len(w) + 1) = " " \o w \o " "})

\* C17: in strict mode a cleaned sample of more than 100 characters with a
\* letter ratio of 0.6 at least is accepted exactly when five of the fifteen
\* words stand in it, lower-cased, with a space on both sides; a word at
\* either end of the sample and a second occurrence do not count.
C17_FiveSpacedCommonWords ==
    (op = "gate" /\ variant = "markup" /\ Len(cleanedText) > 100
        /\ 10 * LetterTotal(cleanedText) >= 6 * Len(cleanedText))
        => /\ accepted <=> SpacedWordTotal(cleanedText) >= 5
           /\ cleanedText = FirstLastWords => ~accepted

\* C17's case: the sample with four words inside, one twice, and a fifth and
\* a sixth at its ends is rejected.
C17_Witness ==
    /\ op = "gate"
    /\ variant = "markup"
    /\ cleanedText = FirstLastWords
    /\ 10 * LetterTotal(cleanedText) >= 6 * Len(cleanedText)
    /\ SpacedWordTotal(cleanedText) = 4
    /\ ~accepted

\* The window of a text of at most 1000 characters has at most 100.
WindowAtMostHundred ==
    \A L \in 0..1000 : (3 * L) \div 10 - L \div 5 <= 100

\* C19: in strict mode the cleaned sample is no longer than the window from
\* floor(0.2 L) to floor(0.3 L); a text of at most 1000 characters has a
\* cleaned sample of at most 100 and is accepted with no ratio computed.
C19_ShortDocumentPassesStrictGate ==
    (op = "gate" /\ variant = "markup") =>
        /\ WindowAtMostHundred
        /\ Len(cleanedText) <= (3 * Len(text)) \div 10 - Len(text) \div 5
        /\ Len(text) <= 1000 =>
               /\ Len(cleanedText) <= 100
               /\ accepted
               /\ divisions = {}

\* C19's case: a text of 1000 characters without a letter, whose window of
\* 100 characters is cleaned to 100, is accepted.
C19_Witness ==
    /\ op = "gate"
    /\ variant = "markup"
    /\ Len(text) = 1000
    /\ Len(cleanedText) = 100
    /\ LetterTotal(cleanedText) = 0
    /\ accepted

\* The bookDetails status each branch of the loop leaves behind.
DetailStatus(step) ==
    CASE step \in {"notOk", "threw"} -> "failed"
      [] step \in {"gate", "extract"} -> "no_sentences"
      [] step = "success" -> "success"

\* C18: after every iteration booksProcessed = booksSuccessful + booksFailed
\* = the length of bookDetails, the k-th processed book has the k-th entry of
\* bookDetails and no other, totalSentencesExtracted is the number of entries
\* of the sentences list, and once the loop is over booksProcessed =
\* booksSelected.
C18_CountersAgree ==
    /\ booksProcessed = booksSuccessful + booksFailed
    /\ booksProcessed = Len(bookDetails)
    /\ booksProcessed <= booksSelected
    /\ Len(trace) = Len(bookDetails)
    /\ \A k \in 1..Len(bookDetails) :
           /\ trace[k].book = k
           /\ bookDetails[k].status = DetailStatus(trace[k].step)
           /\ bookDetails[k].sentencesFound = Cardinality(SentencesFrom(k))
    /\ booksSuccessful =
           Cardinality({k \in 1..Len(bookDetails) :
                           bookDetails[k].status = "success"})
    /\ totalSentencesExtracted = Len(responseSentences)
    /\ pc = "done" => booksProcessed = booksSelected

\* C18's case: the loop is over six books and has taken each of its five
\* branches, one success giving a single sentence and another two.
C18_Witness ==
    /\ pc = "done"
    /\ booksProcessed = MaxSelected
    /\ {trace[k].step : k \in 1..Len(trace)} =
           {"notOk", "threw", "gate", "extract", "success"}
    /\ \E k \in 1..Len(bookDetails) : bookDetails[k].sentencesFound = 1
    /\ totalSentencesExtracted = 3

\* The text archive.org answered with for an entry of bookDetails.
TextOfLength(n) == CHOOSE t \in BookTexts : Len(t) = n

\* The books the entries of the response come from.
ResponseBooks == {responseSentences[i].book : i \in 1..Len(responseSentences)}

deadRules(s) == rgbRule(s) \/ hexColourRule(s) \/ braceBlockRule(s)

\* The filter callback of the markup revision without those three rules.
acceptSentenceWithoutDeadRules(s) ==
    /\ lengthOk(s)
    /\ ~hasExcludedKeyword("markup", s)
    /\ ~(selectorChainRule(s) \/ unitRule(s) \/ displayRule(s)
             \/ tooManyDotsRule(s))
    /\ hasLetters(s)
    /\ letterRatioOk(s)

\* C22: in the markup revision no candidate the filter tests fires the rgb(,
\* hex colour or brace block rule, and the filter without the three rules
\* returns the same sentences.
C22_DeadSentenceRules ==
    (op = "extract" /\ variant = "markup") =>
        LET parts == trimAll([i \in 1..Len(candidates) |-> Chars(candidates[i])])
        IN  /\ \A i \in 1..Len(parts) : ~deadRules(parts[i])
            /\ sentences =
                   StrAll(SelectSeq(parts, acceptSentenceWithoutDeadRules))

\* C22's case: the text that reaches the normalization holds an rgb( call, a
\* hex colour and a brace block, and its sentence is returned.
C22_Witness ==
    /\ op = "extract"
    /\ variant = "markup"
    /\ rgbRule(Chars(mainContent))
    /\ hexColourRule(Chars(mainContent))
    /\ braceBlockRule(Chars(mainContent))
    /\ sentences = <<"The sky was rgb 0 0 255 and very abcdef blue that day.">>

\* The calls of fetchRandomSentences that have not settled.
InFlight == {r \in 1..Len(requests) : requests[r].pc # "done"}

\* C21: loading is true while a request is in flight and, once every
\* set-state call is rendered, only then; at most one request is in flight;
\* an error never shows together with sentences; and when the last request
\* has settled and is rendered, either it failed, error is set and
\* sentences is empty, or it succeeded, error is null and sentences is the
\* list of its response.
C21_LoadingErrorSentences ==
    /\ InFlight # {} => page.loading
    /\ updates = <<>> => (page.loading <=> InFlight # {})
    /\ Cardinality(InFlight) <= 1
    /\ ~(page.error # null /\ page.sentences # <<>>)
    /\ (requests # <<>> /\ InFlight = {} /\ updates = <<>>) =>
           LET last == requests[Len(requests)]
           IN  \/ /\ last.outcome = "failure"
                  /\ page.error # null
                  /\ page.sentences = <<>>
               \/ /\ last.outcome = "success"
                  /\ page.error = null
                  /\ page.sentences = last.data.sentences

\* C21's case: a request that gave sentences, then one that failed, all
\* rendered: the error shows and the earlier sentences are gone.
C21_Witness ==
    /\ Len(requests) = 2
    /\ requests[1].outcome = "success"
    /\ requests[2].outcome = "failure"
    /\ updates = <<>>
    /\ ~page.loading
    /\ page.error = "Could not extract sentences from books"
    /\ page.sentences = <<>>

=============================================================================
